---------------------------- MODULE Spec2Model ----------------------------
(***************************************************************************)
(* Storage request core of azure-sdk-for-rust: credentials, cloud          *)
(* locations and endpoint resolution, client builders, SAS signing,        *)
(* request finalization and the policy pipeline.                           *)
(*                                                                         *)
(* Strings are TLA+ strings, handled character by character               *)
(* (SubSeq/Len/\o), so that format!, Url::parse, Url::join and             *)
(* PathSegmentsMut::extend are computed rather than assumed.               *)
(* Option<T> is a sequence of length 0 or 1; enums and Result are records  *)
(* with a "tag" field.                                                     *)
(***************************************************************************)
EXTENDS Naturals, Integers, Sequences, FiniteSets, TLC

VARIABLES
    the_builder,   \* the ContainerClientBuilder / BlobServiceClientBuilder in hand
    built,         \* what build() gave: a client, or the panic that ended the program
    sas_call,      \* the last shared_access_signature call and its result
    clock,         \* OffsetDateTime::now_utc(), in seconds since the Unix epoch
    finalize_call, \* the last finalize_request call and its result
    url_call,      \* the last CloudLocation::url / url_with_segments call and its result
    the_pipeline,  \* the Pipeline made by the last new_pipeline_from_options call
    flight,        \* the request travelling through the pipeline
    sends,         \* each concurrent send through the built client: its own request and context
    debug_call     \* the last pair of credentials formatted with Debug, and the outputs

vars ==
    <<the_builder, built, sas_call, clock, finalize_call, url_call, the_pipeline, flight,
      sends, debug_call>>

None == [tag |-> "None"]

(***************************************************************************)
(* Bounds of the model                                                     *)
(***************************************************************************)
MaxBodyLen == 11        \* request bodies of 0..MaxBodyLen bytes
MaxClock == 2           \* the clock runs from 0 to MaxClock seconds
MaxNewSegments == 2     \* url_with_segments gets at most this many new segments
MaxSenders == 2         \* tasks sending through the same client at the same time

(***************************************************************************)
(* Characters and strings                                                  *)
(***************************************************************************)
Char(s, i) == SubSeq(s, i, i)

Drop(s, n) == SubSeq(s, n + 1, Len(s))

StartsWith(s, p) == Len(s) >= Len(p) /\ SubSeq(s, 1, Len(p)) = p

RECURSIVE FindAny(_, _, _)
\* The first position >= i of s holding a character of cs, Len(s)+1 if none.
FindAny(s, cs, i) ==
    IF i > Len(s) THEN Len(s) + 1
    ELSE IF Char(s, i) \in cs THEN i
    ELSE FindAny(s, cs, i + 1)

RECURSIVE FindLast(_, _, _)
\* The last position <= i of s holding character c, 0 if none.
FindLast(s, c, i) ==
    IF i < 1 THEN 0
    ELSE IF Char(s, i) = c THEN i
    ELSE FindLast(s, c, i - 1)

DigitChars == <<"0", "1", "2", "3", "4", "5", "6", "7", "8", "9">>

Digits == {DigitChars[i] : i \in 1..10}

Letters ==
    {"a", "b", "c", "d", "e", "f", "g", "h", "i", "j", "k", "l", "m",
     "n", "o", "p", "q", "r", "s", "t", "u", "v", "w", "x", "y", "z"}

DigitValue(c) == (CHOOSE i \in 1..10 : DigitChars[i] = c) - 1

RECURSIVE UsizeToString(_)
\* usize::to_string / Display for u16: decimal, no sign, no leading zeros.
UsizeToString(n) ==
    IF n < 10 THEN DigitChars[n + 1]
    ELSE UsizeToString(n \div 10) \o DigitChars[(n % 10) + 1]

AllDigits(s) == \A i \in 1..Len(s) : Char(s, i) \in Digits

RECURSIVE ParseDecimal(_)
\* str::parse::<u64> on a non-empty string of digits.
ParseDecimal(s) ==
    IF Len(s) = 0 THEN 0
    ELSE 10 * ParseDecimal(SubSeq(s, 1, Len(s) - 1)) + DigitValue(Char(s, Len(s)))

RECURSIVE JoinWith(_, _)
\* segments.join(sep)
JoinWith(segs, sep) ==
    IF Len(segs) = 0 THEN ""
    ELSE IF Len(segs) = 1 THEN segs[1]
    ELSE segs[1] \o sep \o JoinWith(Tail(segs), sep)

(***************************************************************************)
(* Result<T, E> and panics                                                 *)
(***************************************************************************)
Ok(v) == [tag |-> "Ok", value |-> v]

Err(e) == [tag |-> "Err", error |-> e]

\* A panic (unwrap() on Err, todo!()): the program is aborted, nothing is returned.
Panic(at) == [tag |-> "Panic", at |-> at]

IsOk(r) == r.tag = "Ok"

IsErr(r) == r.tag = "Err"

(***************************************************************************)
(* The url crate: Url, Url::parse, Url::join, path_segments_mut().extend   *)
(*                                                                         *)
(* A Url is a record: scheme, host, port (Option<u16>), path (the list     *)
(* path_segments() yields: "/" is <<"">>, "/a/" is <<"a", "">>), opaque    *)
(* (the path of a cannot-be-a-base URL), query and fragment (Option).      *)
(* Modelled for the inputs of this model: no userinfo, no IPv6 literal,    *)
(* no backslash, lower-case ASCII.                                         *)
(***************************************************************************)
SpecialSchemes == {"http", "https", "ws", "wss", "ftp"}

DefaultPort(scheme) ==
    CASE scheme = "http" -> <<80>>
      [] scheme = "https" -> <<443>>
      [] scheme = "ws" -> <<80>>
      [] scheme = "wss" -> <<443>>
      [] scheme = "ftp" -> <<21>>
      [] OTHER -> <<>>

MaxPort == 65535

\* Forbidden host code points (of those the model's alphabet holds).
ForbiddenHostChars == {" ", "#", "%", "/", ":", "<", ">", "?", "@", "[", "\\", "]", "^", "|"}

\* The percent-encode sets (without the backtick and the control characters, which
\* no string of the model holds): PATH, and PATH_SEGMENT = PATH + '/' + '%'.
PathEncodeSet == {" ", "\"", "#", "<", ">", "?", "{", "}"}

PathSegmentEncodeSet == PathEncodeSet \cup {"/", "%"}

QueryEncodeSet == {" ", "\"", "#", "<", ">", "'"}

PercentCode(c) ==
    CASE c = " " -> "%20"
      [] c = "\"" -> "%22"
      [] c = "#" -> "%23"
      [] c = "%" -> "%25"
      [] c = "'" -> "%27"
      [] c = "/" -> "%2F"
      [] c = "<" -> "%3C"
      [] c = ">" -> "%3E"
      [] c = "?" -> "%3F"
      [] c = "{" -> "%7B"
      [] c = "}" -> "%7D"

EncodeChar(c, set) == IF c \in set THEN PercentCode(c) ELSE c

RECURSIVE PercentEncode(_, _)
PercentEncode(s, set) ==
    IF Len(s) = 0 THEN ""
    ELSE EncodeChar(Char(s, 1), set) \o PercentEncode(Drop(s, 1), set)

IsScheme(s) ==
    /\ Len(s) > 0
    /\ Char(s, 1) \in Letters
    /\ \A i \in 1..Len(s) : Char(s, i) \in Letters \cup Digits \cup {"+", "-", "."}

\* Whether input starts with "scheme:".
HasScheme(input) ==
    LET colon == FindAny(input, {":"}, 1)
    IN colon <= Len(input) /\ IsScheme(SubSeq(input, 1, colon - 1))

\* Remove the path's last segment, if any (shorten, in the URL standard).
Shorten(path) == IF Len(path) = 0 THEN path ELSE SubSeq(path, 1, Len(path) - 1)

RECURSIVE PathState(_, _, _, _)
\* The parser's path state: read input s from position i up to '?', '#' or the end,
\* appending its segments to path; buf is the segment being read. Gives the path
\* and the position where it stopped.
PathState(path, buf, s, i) ==
    LET atEnd == i > Len(s) \/ Char(s, i) \in {"?", "#"}
        slash == ~atEnd /\ Char(s, i) = "/"
        p1 == IF buf = ".."
                THEN (IF slash THEN Shorten(path) ELSE Append(Shorten(path), ""))
              ELSE IF buf = "."
                THEN (IF slash THEN path ELSE Append(path, ""))
              ELSE Append(path, buf)
    IN IF atEnd THEN [path |-> p1, next |-> i]
       ELSE IF slash THEN PathState(p1, "", s, i + 1)
       ELSE PathState(path, buf \o EncodeChar(Char(s, i), PathEncodeSet), s, i + 1)

\* Query and fragment of s from position i (which is at '?', '#' or the end).
QueryOf(s, i) ==
    IF i <= Len(s) /\ Char(s, i) = "?"
    THEN <<PercentEncode(SubSeq(s, i + 1, FindAny(s, {"#"}, i) - 1), QueryEncodeSet)>>
    ELSE <<>>

FragmentOf(s, i) ==
    LET h == FindAny(s, {"#"}, i)
    IN IF h <= Len(s) THEN <<Drop(s, h)>> ELSE <<>>

RECURSIVE SkipSlashes(_, _)
SkipSlashes(s, i) == IF i <= Len(s) /\ Char(s, i) = "/" THEN SkipSlashes(s, i + 1) ELSE i

\* After "scheme:" of a special scheme, or after a scheme-relative "//": the
\* authority (host, optional port), then path, query and fragment.
ParseWithAuthority(scheme, s, start) ==
    LET a == SkipSlashes(s, start)
        e == FindAny(s, {"/", "?", "#"}, a)
        authority == SubSeq(s, a, e - 1)
        colon == FindLast(authority, ":", Len(authority))
        host == IF colon = 0 THEN authority ELSE SubSeq(authority, 1, colon - 1)
        portStr == IF colon = 0 THEN "" ELSE Drop(authority, colon)
        pathFrom == IF e <= Len(s) /\ Char(s, e) = "/" THEN e + 1 ELSE e
        ps == PathState(<<>>, "", s, pathFrom)
    IN IF host = "" THEN Err("EmptyHost")
       ELSE IF \E i \in 1..Len(host) : Char(host, i) \in ForbiddenHostChars
         THEN Err("InvalidDomainCharacter")
       ELSE IF ~AllDigits(portStr) THEN Err("InvalidPort")
       ELSE IF portStr # "" /\ ParseDecimal(portStr) > MaxPort THEN Err("InvalidPort")
       ELSE Ok([scheme |-> scheme,
                host |-> host,
                port |-> IF portStr = "" \/ <<ParseDecimal(portStr)>> = DefaultPort(scheme)
                         THEN <<>> ELSE <<ParseDecimal(portStr)>>,
                path |-> ps.path,
                opaque |-> "",
                query |-> QueryOf(s, ps.next),
                fragment |-> FragmentOf(s, ps.next),
                cannot_be_a_base |-> FALSE])

\* Url::parse, on "scheme://host..." of a special scheme and on "scheme:opaque".
Url_parse(input) ==
    IF ~HasScheme(input) THEN Err("RelativeUrlWithoutBase")
    ELSE LET colon == FindAny(input, {":"}, 1)
             scheme == SubSeq(input, 1, colon - 1)
             e == FindAny(input, {"?", "#"}, colon + 1)
         IN IF scheme \in SpecialSchemes
            THEN ParseWithAuthority(scheme, input, colon + 1)
            ELSE Ok([scheme |-> scheme,
                     host |-> "",
                     port |-> <<>>,
                     path |-> <<>>,
                     opaque |-> SubSeq(input, colon + 1, e - 1),
                     query |-> QueryOf(input, e),
                     fragment |-> FragmentOf(input, e),
                     cannot_be_a_base |-> TRUE])

\* Url::join: input parsed as a reference relative to base.
Url_join(base, input) ==
    IF HasScheme(input) THEN Url_parse(input)
    ELSE IF base.cannot_be_a_base
      THEN (IF StartsWith(input, "#")
            THEN Ok([base EXCEPT !.fragment = <<Drop(input, 1)>>])
            ELSE Err("RelativeUrlWithCannotBeABaseBase"))
    ELSE IF input = "" THEN Ok([base EXCEPT !.fragment = <<>>])
    ELSE IF StartsWith(input, "#") THEN Ok([base EXCEPT !.fragment = <<Drop(input, 1)>>])
    ELSE IF StartsWith(input, "?")
      THEN Ok([base EXCEPT !.query = QueryOf(input, 1), !.fragment = FragmentOf(input, 1)])
    ELSE IF StartsWith(input, "//") THEN ParseWithAuthority(base.scheme, input, 1)
    ELSE LET ps == IF StartsWith(input, "/")
                   THEN PathState(<<>>, "", input, 2)
                   ELSE PathState(Shorten(base.path), "", input, 1)
         IN Ok([base EXCEPT !.path = ps.path,
                            !.query = QueryOf(input, ps.next),
                            !.fragment = FragmentOf(input, ps.next)])

RECURSIVE PathSegmentsMut_extend(_, _)
\* PathSegmentsMut::extend: "." and ".." are skipped; a '/' goes before the new
\* segment unless the path so far is exactly "/"; the segment is percent-encoded
\* with '/' and '%' encoded too.
PathSegmentsMut_extend(path, segments) ==
    IF Len(segments) = 0 THEN path
    ELSE LET seg == Head(segments)
             enc == PercentEncode(seg, PathSegmentEncodeSet)
             p1 == IF seg \in {".", ".."} THEN path
                   ELSE IF path = <<"">> THEN <<enc>>
                   ELSE Append(path, enc)
         IN PathSegmentsMut_extend(p1, Tail(segments))

\* Url::as_str / Display.
Url_as_str(u) ==
    u.scheme \o ":"
    \o (IF u.cannot_be_a_base THEN u.opaque
        ELSE "//" \o u.host
             \o (IF u.port = <<>> THEN "" ELSE ":" \o UsizeToString(u.port[1]))
             \o "/" \o JoinWith(u.path, "/"))
    \o (IF u.query = <<>> THEN "" ELSE "?" \o u.query[1])
    \o (IF u.fragment = <<>> THEN "" ELSE "#" \o u.fragment[1])


(***************************************************************************)
(* azure_core::error                                                       *)
(***************************************************************************)
\* azure_core::error::ErrorKind (it has no kind for addresses).
ErrorKinds == {"HttpResponse", "Io", "DataConversion", "Credential", "MockFramework", "Other"}

\* Error::message(kind, message)
Error_message(kind, message) == Err([kind |-> kind, message |-> message])

\* ResultExt::with_context(kind, || message): an Err is wrapped under kind.
with_context(result, kind, message) ==
    IF IsOk(result) THEN result ELSE Error_message(kind, message)

(***************************************************************************)
(* StorageCredentials                                                      *)
(***************************************************************************)
EMULATOR_ACCOUNT == "devstoreaccount1"

EMULATOR_ACCOUNT_KEY ==
    "Eby8vdM02xNOcqFlqUwJPLlmEtlCDXJ1OUzFT50uSRZ6IFsuFq2UVErCz4I6tq/K1SZFPTOtr/KBHBeksoGMGw=="

Key(account, key) == [tag |-> "Key", account |-> account, key |-> key]

SASToken(pairs) == [tag |-> "SASToken", pairs |-> pairs]

BearerToken(token) == [tag |-> "BearerToken", token |-> token]

\* Arc<dyn TokenCredential>: the capability, named by an id.
TokenCredential(id) == [tag |-> "TokenCredential", id |-> id]

\* The credentials the model's callers supply.
CredentialValues ==
    { Key("acct", "a2V5"),
      SASToken(<< <<"sv", "2019-12-12">>, <<"sig", "abc">> >>),
      BearerToken("tok"),
      TokenCredential("aad") }

\* Formatter::debug_struct(name).field(field, &value).finish() with a &str value:
\* on one line for {:?}, over three lines for {:#?}.
DebugStruct_finish(name, field, value, alternate) ==
    IF alternate
    THEN name \o " {\n    " \o field \o ": \"" \o value \o "\",\n}"
    ELSE name \o " { " \o field \o ": \"" \o value \o "\" }"

\* What #[derive(Debug)] would print for {:?}: the variant and its fields.
StorageCredentials_fmt_Derived(self, alternate) ==
    CASE self.tag = "Key" -> "Key(\"" \o self.account \o "\", \"" \o self.key \o "\")"
      [] self.tag = "SASToken" ->
           "SASToken(["
           \o JoinWith([i \in 1..Len(self.pairs) |->
                          "(\"" \o self.pairs[i][1] \o "\", \"" \o self.pairs[i][2] \o "\")"],
                       ", ")
           \o "])"
      [] self.tag = "BearerToken" -> "BearerToken(\"" \o self.token \o "\")"
      [] self.tag = "TokenCredential" -> "TokenCredential(" \o self.id \o ")"

\* impl Debug for StorageCredentials: fmt
StorageCredentials_fmt(self, alternate) ==
    CASE self.tag = "Key" ->
           DebugStruct_finish("StorageCredentials", "credential", "Key", alternate)
      [] self.tag = "SASToken" ->
           DebugStruct_finish("StorageCredentials", "credential", "SASToken", alternate)
      [] self.tag = "BearerToken" ->
           DebugStruct_finish("StorageCredentials", "credential", "BearerToken", alternate)
      [] self.tag = "TokenCredential" ->
           DebugStruct_finish("StorageCredentials", "credential", "TokenCredential", alternate)

\* AccountSharedAccessSignature::new stores its arguments.
AccountSharedAccessSignature_new(account, key, resource, resource_type, expiry, permissions) ==
    [account |-> account, key |-> key, resource |-> resource,
     resource_type |-> resource_type, expiry |-> expiry, permissions |-> permissions]

\* StorageCredentials::shared_access_signature
StorageCredentials_shared_access_signature(self, resource, resource_type, expiry, permissions) ==
    IF self.tag = "Key"
    THEN Ok(AccountSharedAccessSignature_new(self.account, self.key, resource,
                                             resource_type, expiry, permissions))
    ELSE Error_message("Other",
           "failed shared access signature generation. SAS can be generated only from key and account clients")

(***************************************************************************)
(* CloudLocation                                                           *)
(***************************************************************************)
Public(account, storage_credentials) ==
    [tag |-> "Public", account |-> account, storage_credentials |-> storage_credentials]

China(account, storage_credentials) ==
    [tag |-> "China", account |-> account, storage_credentials |-> storage_credentials]

Emulator(address, port) == [tag |-> "Emulator", address |-> address, port |-> port]

Custom(uri, storage_credentials) ==
    [tag |-> "Custom", uri |-> uri, storage_credentials |-> storage_credentials]

CloudLocation_url_CustomWithStorageType(self, storage_type) ==
    CASE self.tag = "Public" ->
           with_context(
             Url_parse("https://" \o self.account \o "." \o storage_type \o ".core.windows.net"),
             "DataConversion",
             "failed to parse url: https://" \o self.account \o "." \o storage_type
               \o ".core.windows.net")
      [] self.tag = "China" ->
           with_context(
             Url_parse("https://" \o self.account \o "." \o storage_type
                       \o ".core.chinacloudapi.cn"),
             "DataConversion",
             "failed to parse url: https://" \o self.account \o "." \o storage_type
               \o ".core.chinacloudapi.cn")
      [] self.tag = "Custom" ->
           IF self.uri.cannot_be_a_base
           THEN Error_message("DataConversion", "Invalid url")
           ELSE Ok([self.uri EXCEPT !.path = PathSegmentsMut_extend(@, <<storage_type>>)])
      [] self.tag = "Emulator" ->
           with_context(
             Url_parse("https://" \o self.address \o ":" \o UsizeToString(self.port)),
             "DataConversion",
             "failed to parse url: https://" \o self.address \o ":" \o UsizeToString(self.port))

CloudLocation_url_ChinaAsPublic(self, storage_type) ==
    CASE self.tag \in {"Public", "China"} ->
           with_context(
             Url_parse("https://" \o self.account \o "." \o storage_type \o ".core.windows.net"),
             "DataConversion",
             "failed to parse url: https://" \o self.account \o "." \o storage_type
               \o ".core.windows.net")
      [] self.tag = "Custom" -> Ok(self.uri)
      [] self.tag = "Emulator" ->
           with_context(
             Url_parse("https://" \o self.address \o ":" \o UsizeToString(self.port)),
             "DataConversion",
             "failed to parse url: https://" \o self.address \o ":" \o UsizeToString(self.port))

\* CloudLocation::url
CloudLocation_url(self, storage_type) ==
    CASE self.tag = "Public" ->
           with_context(
             Url_parse("https://" \o self.account \o "." \o storage_type \o ".core.windows.net"),
             "DataConversion",
             "failed to parse url: https://" \o self.account \o "." \o storage_type
               \o ".core.windows.net")
      [] self.tag = "China" ->
           with_context(
             Url_parse("https://" \o self.account \o "." \o storage_type
                       \o ".core.chinacloudapi.cn"),
             "DataConversion",
             "failed to parse url: https://" \o self.account \o "." \o storage_type
               \o ".core.chinacloudapi.cn")
      [] self.tag = "Custom" -> Ok(self.uri)
      [] self.tag = "Emulator" ->
           with_context(
             Url_parse("https://" \o self.address \o ":" \o UsizeToString(self.port)),
             "DataConversion",
             "failed to parse url: https://" \o self.address \o ":" \o UsizeToString(self.port))

CloudLocation_storage_credentials_EmulatorSwapped(self) ==
    IF self.tag = "Emulator" THEN Key(EMULATOR_ACCOUNT_KEY, EMULATOR_ACCOUNT)
    ELSE self.storage_credentials

\* CloudLocation::storage_credentials
CloudLocation_storage_credentials(self) ==
    CASE self.tag = "Public" -> self.storage_credentials
      [] self.tag = "China" -> self.storage_credentials
      [] self.tag = "Emulator" -> Key(EMULATOR_ACCOUNT, EMULATOR_ACCOUNT_KEY)
      [] self.tag = "Custom" -> self.storage_credentials

CloudLocation_storage_account_CustomHost(self) ==
    CASE self.tag = "Public" -> Ok(self.account)
      [] self.tag = "China" -> Ok(self.account)
      [] self.tag = "Emulator" -> Ok(EMULATOR_ACCOUNT)
      [] self.tag = "Custom" -> Ok(self.uri.host)

\* CloudLocation::storage_account: the name, or the panic of todo!().
CloudLocation_storage_account(self) ==
    CASE self.tag = "Public" -> Ok(self.account)
      [] self.tag = "China" -> Ok(self.account)
      [] self.tag = "Emulator" -> Ok(EMULATOR_ACCOUNT)
      [] self.tag = "Custom" -> Panic("not yet implemented")


(***************************************************************************)
(* StorageOptions, policies and the pipeline                               *)
(***************************************************************************)
\* ClientOptions::default(): default retry and transport, no caller policies.
ClientOptions_default ==
    [retry |-> "exponential", transport |-> "default",
     per_call_policies |-> <<>>, per_retry_policies |-> <<>>]

\* TimeoutPolicy::new(default_timeout)
TimeoutPolicy_new(default_timeout) ==
    [policy |-> "TimeoutPolicy", default_timeout |-> default_timeout]

\* StorageOptions::default()
StorageOptions_default ==
    [options |-> ClientOptions_default, timeout_policy |-> TimeoutPolicy_new(<<>>)]

\* AuthorizationPolicy::new(credentials): the stage captures the credential.
AuthorizationPolicy_new(credentials) ==
    [policy |-> "AuthorizationPolicy", credentials |-> credentials]

\* A policy the caller put into ClientOptions: one that sets a header, one that
\* only logs.
CallerPolicy(name) == [policy |-> "CallerPolicy", name |-> name]

\* Pipeline::new(crate_name, crate_version, options, per_call_policies,
\* per_retry_policies): the library's stages with the caller's threaded around them.
Pipeline_new(options, per_call_policies, per_retry_policies) ==
    per_call_policies
    \o options.per_call_policies
    \o << [policy |-> "TelemetryPolicy"],
          [policy |-> "CustomHeadersPolicy"],
          [policy |-> "RetryPolicy", retry |-> options.retry] >>
    \o per_retry_policies
    \o options.per_retry_policies
    \o << [policy |-> "TransportPolicy", transport |-> options.transport] >>

\* new_pipeline_from_options
new_pipeline_from_options(options, credentials) ==
    LET auth_policy == AuthorizationPolicy_new(credentials)
        per_retry_policies == <<options.timeout_policy, auth_policy>>
    IN Pipeline_new(options.options, <<>>, per_retry_policies)

\* The position of the first stage of the given kind in a pipeline, 0 if none.
StageIndex(policies, kind) ==
    IF \E i \in 1..Len(policies) : policies[i].policy = kind
    THEN CHOOSE i \in 1..Len(policies) :
           /\ policies[i].policy = kind
           /\ \A j \in 1..(i - 1) : policies[j].policy # kind
    ELSE 0

(***************************************************************************)
(* Requests and finalize_request                                           *)
(***************************************************************************)
CONTENT_LENGTH == "content-length"

MS_DATE == "x-ms-date"

VERSION == "x-ms-version"

AZURE_VERSION == "2019-12-12"

\* Body::Bytes(bytes)
Bytes(bytes) == [tag |-> "Bytes", bytes |-> bytes]

\* azure_core::EMPTY_BODY
EMPTY_BODY == Bytes(<<>>)

\* Body::len
Body_len(b) == Len(b.bytes)

\* A request no body was given to yet.
BodyUnset == [tag |-> "Unset"]

\* Request::new(url, method): no headers, no body yet.
Request_new(url, method) ==
    [url |-> url, method |-> method, headers |-> <<>>, body |-> BodyUnset]

\* Request::insert_header: the name's earlier value, if any, is replaced.
\* Headers are a function from the names present to their values.
insert_header(request, name, value) ==
    [request EXCEPT !.headers =
        [n \in (DOMAIN request.headers) \cup {name} |->
            IF n = name THEN value ELSE request.headers[n]]]

\* Request::set_body
set_body(request, body) == [request EXCEPT !.body = body]

RECURSIVE InsertAll(_, _, _)
\* for (k, v) in headers { request.insert_header(k, v) }, over the names left.
InsertAll(request, headers, names) ==
    IF names = {} THEN request
    ELSE LET k == CHOOSE n \in names : TRUE
         IN InsertAll(insert_header(request, k, headers[k]), headers, names \ {k})

Pad2(n) == IF n < 10 THEN "0" \o UsizeToString(n) ELSE UsizeToString(n)

\* date::to_rfc1123 of the instant now seconds after 1970-01-01 00:00:00 UTC,
\* within that day's first minute.
to_rfc1123(now) == "Thu, 01 Jan 1970 00:00:" \o Pad2(now % 60) \o " GMT"

finalize_request_CallerHeadersLast(url, method, headers, request_body, now) ==
    LET r0 == Request_new(url, method)
        r1 == insert_header(r0, CONTENT_LENGTH,
                IF request_body = <<>> THEN "0"
                ELSE UsizeToString(Body_len(request_body[1])))
        r2 == insert_header(r1, MS_DATE, to_rfc1123(now))
        r3 == insert_header(r2, VERSION, AZURE_VERSION)
        r4 == InsertAll(r3, headers, DOMAIN headers)
    IN Ok(set_body(r4, IF request_body = <<>> THEN EMPTY_BODY ELSE request_body[1]))

finalize_request_NoBodyLeftUnset(url, method, headers, request_body, now) ==
    LET r1 == InsertAll(Request_new(url, method), headers, DOMAIN headers)
        r2 == IF request_body = <<>> THEN r1
              ELSE insert_header(r1, CONTENT_LENGTH, UsizeToString(Body_len(request_body[1])))
        r3 == insert_header(r2, MS_DATE, to_rfc1123(now))
        r4 == insert_header(r3, VERSION, AZURE_VERSION)
    IN Ok(IF request_body = <<>> THEN r4 ELSE set_body(r4, request_body[1]))

\* finalize_request(url, method, headers, request_body); now is what
\* OffsetDateTime::now_utc() returns during the call.
finalize_request(url, method, headers, request_body, now) ==
    LET time == to_rfc1123(now)
        r0 == Request_new(url, method)
        r1 == InsertAll(r0, headers, DOMAIN headers)
        r2 == IF request_body # <<>>
              THEN insert_header(r1, CONTENT_LENGTH, UsizeToString(Body_len(request_body[1])))
              ELSE insert_header(r1, CONTENT_LENGTH, "0")
        r3 == insert_header(r2, MS_DATE, time)
        r4 == insert_header(r3, VERSION, AZURE_VERSION)
        r5 == IF request_body # <<>>
              THEN set_body(r4, request_body[1])
              ELSE set_body(r4, EMPTY_BODY)
    IN Ok(r5)

url_with_segments_Concatenate(url, new_segments) ==
    IF url.cannot_be_a_base
    THEN Error_message("DataConversion",
           "failed to parse url path segments from '" \o Url_as_str(url) \o "'")
    ELSE Ok([url EXCEPT !.path = url.path \o new_segments])

\* url_with_segments
url_with_segments(url, new_segments) ==
    IF url.cannot_be_a_base
    THEN Error_message("DataConversion",
           "failed to parse url path segments from '" \o Url_as_str(url) \o "'")
    ELSE Ok([url EXCEPT !.path = PathSegmentsMut_extend(url.path, new_segments)])


(***************************************************************************)
(* Client builders and clients                                             *)
(***************************************************************************)
\* A panic of unwrap() on Err(error).
PanicUnwrap(what, error) == [tag |-> "Panic", at |-> what, cause |-> error]

\* ContainerClientBuilder::with_location
ContainerClientBuilder_with_location(cloud_location, container) ==
    [tag |-> "ContainerClientBuilder",
     cloud_location |-> cloud_location,
     container |-> container,
     storage_options |-> StorageOptions_default]

\* ContainerClientBuilder::new
ContainerClientBuilder_new(account, container, storage_credentials) ==
    ContainerClientBuilder_with_location(Public(account, storage_credentials), container)

\* BlobServiceClientBuilder::with_location
BlobServiceClientBuilder_with_location(cloud_location) ==
    [tag |-> "BlobServiceClientBuilder",
     cloud_location |-> cloud_location,
     storage_options |-> StorageOptions_default]

\* BlobServiceClientBuilder::new
BlobServiceClientBuilder_new(account, storage_credentials) ==
    BlobServiceClientBuilder_with_location(Public(account, storage_credentials))

ContainerClientBuilder_build_EmulatorPipeline(self) ==
    LET storage_credentials == CloudLocation_storage_credentials(self.cloud_location)
        pipeline == new_pipeline_from_options(self.storage_options,
                                              Key(EMULATOR_ACCOUNT, EMULATOR_ACCOUNT_KEY))
        base == CloudLocation_url(self.cloud_location, "blob")
        url == Url_join(base.value, self.container)
        storage_account == CloudLocation_storage_account(self.cloud_location)
    IN IF IsErr(base) THEN PanicUnwrap("url(\"blob\").unwrap()", base.error)
       ELSE IF IsErr(url) THEN PanicUnwrap("join(&self.container).unwrap()", url.error)
       ELSE IF ~IsOk(storage_account) THEN storage_account
       ELSE [tag |-> "ContainerClient",
             storage_account |-> storage_account.value,
             storage_credentials |-> storage_credentials,
             container_name |-> self.container,
             url |-> url.value,
             pipeline |-> pipeline]

\* ContainerClientBuilder::build: the client, or the panic that ends the program.
ContainerClientBuilder_build(self) ==
    LET storage_credentials == CloudLocation_storage_credentials(self.cloud_location)
        pipeline == new_pipeline_from_options(self.storage_options, storage_credentials)
        base == CloudLocation_url(self.cloud_location, "blob")
        url == Url_join(base.value, self.container)
        storage_account == CloudLocation_storage_account(self.cloud_location)
    IN IF IsErr(base) THEN PanicUnwrap("url(\"blob\").unwrap()", base.error)
       ELSE IF IsErr(url) THEN PanicUnwrap("join(&self.container).unwrap()", url.error)
       ELSE IF ~IsOk(storage_account) THEN storage_account
       ELSE [tag |-> "ContainerClient",
             storage_account |-> storage_account.value,
             storage_credentials |-> storage_credentials,
             container_name |-> self.container,
             url |-> url.value,
             pipeline |-> pipeline]

\* BlobServiceClientBuilder::build: the client, or the panic that ends the program.
BlobServiceClientBuilder_build(self) ==
    LET storage_credentials == CloudLocation_storage_credentials(self.cloud_location)
        pipeline == new_pipeline_from_options(self.storage_options, storage_credentials)
        url == CloudLocation_url(self.cloud_location, "blob")
        storage_account == CloudLocation_storage_account(self.cloud_location)
    IN IF IsErr(url) THEN PanicUnwrap("url(\"blob\").unwrap()", url.error)
       ELSE IF ~IsOk(storage_account) THEN storage_account
       ELSE [tag |-> "BlobServiceClient",
             storage_account |-> storage_account.value,
             storage_credentials |-> storage_credentials,
             url |-> url.value,
             pipeline |-> pipeline]

\* BlobSharedAccessSignature::new stores its arguments.
BlobSharedAccessSignature_new(key, canonicalized_resource, permissions, expiry, signed_resource) ==
    [key |-> key, canonicalized_resource |-> canonicalized_resource,
     permissions |-> permissions, expiry |-> expiry, signed_resource |-> signed_resource]

ContainerClient_shared_access_signature_BlobResource(self, permissions, expiry) ==
    LET canonicalized_resource ==
            "/blob/" \o self.storage_account \o "/" \o self.container_name
    IN IF self.storage_credentials.tag = "Key"
       THEN Ok(BlobSharedAccessSignature_new(self.storage_credentials.key,
                 canonicalized_resource, permissions, expiry, "Blob"))
       ELSE Error_message("Credential",
              "Shared access signature generation - SAS can be generated only from key and account clients")

ContainerClient_shared_access_signature_AnyVariant(self, permissions, expiry) ==
    Ok(BlobSharedAccessSignature_new(
         IF self.storage_credentials.tag = "Key" THEN self.storage_credentials.key ELSE "",
         "/blob/" \o self.storage_account \o "/" \o self.container_name,
         permissions, expiry, "Container"))

\* ContainerClient::shared_access_signature
ContainerClient_shared_access_signature(self, permissions, expiry) ==
    LET canonicalized_resource ==
            "/blob/" \o self.storage_account \o "/" \o self.container_name
    IN IF self.storage_credentials.tag = "Key"
       THEN Ok(BlobSharedAccessSignature_new(self.storage_credentials.key,
                 canonicalized_resource, permissions, expiry, "Container"))
       ELSE Error_message("Credential",
              "Shared access signature generation - SAS can be generated only from key and account clients")


(***************************************************************************)
(* The inputs the model's callers draw from                                *)
(***************************************************************************)
\* Account names: a well-formed one, one with a character no host may hold, and
\* one with a character that ends the host.
Accounts == {"acct", "bad acct", "a/b"}

\* Container names: a plain one, and ones that are more than one path segment.
ContainerNames == {"c", "a/b", "..", "?x", "//"}

CustomUris ==
    {Url_parse(u).value : u \in {"https://custom.example/base/dir", "mailto:ops"}}

CloudLocations ==
    {Public(a, c) : a \in Accounts, c \in CredentialValues}
    \cup {China(a, c) : a \in Accounts, c \in CredentialValues}
    \cup {Emulator(h, 10000) : h \in {"127.0.0.1", "bad host"}}
    \cup {Custom(u, c) : u \in CustomUris, c \in CredentialValues}

RetryValues == {"exponential", "none"}

TransportValues == {"default", "custom"}

\* Option<Timeout>, in seconds.
TimeoutValues == {<<>>, <<30>>}

SasPermissions == {"r", "rw"}

SasExpiries == {1, 2}

\* The tasks that send through the built client, and a task with no send under way.
Senders == 1..MaxSenders

Idle == [tag |-> "Idle"]

(***************************************************************************)
(* Clients: the builder calls, build, and SAS generation                   *)
(***************************************************************************)
BuilderIs(tag) == the_builder.tag = tag /\ built = None

BuilderStep(b) ==
    /\ the_builder' = b
    /\ UNCHANGED <<built, sas_call, clock, finalize_call, url_call, the_pipeline, flight, sends, debug_call>>

ContainerClientBuilderNew ==
    /\ the_builder = None
    /\ \E a \in Accounts, n \in ContainerNames, c \in CredentialValues :
         BuilderStep(ContainerClientBuilder_new(a, n, c))

ContainerClientBuilderWithLocation ==
    /\ the_builder = None
    /\ \E l \in CloudLocations, n \in ContainerNames :
         BuilderStep(ContainerClientBuilder_with_location(l, n))

BlobServiceClientBuilderNew ==
    /\ the_builder = None
    /\ \E a \in Accounts, c \in CredentialValues :
         BuilderStep(BlobServiceClientBuilder_new(a, c))

BlobServiceClientBuilderWithLocation ==
    /\ the_builder = None
    /\ \E l \in CloudLocations : BuilderStep(BlobServiceClientBuilder_with_location(l))

\* ContainerClientBuilder::cloud_location
ContainerClientBuilder_cloud_location ==
    /\ BuilderIs("ContainerClientBuilder")
    /\ \E l \in CloudLocations : BuilderStep([the_builder EXCEPT !.cloud_location = l])

\* ContainerClientBuilder::retry
ContainerClientBuilder_retry ==
    /\ BuilderIs("ContainerClientBuilder")
    /\ \E r \in RetryValues :
         BuilderStep([the_builder EXCEPT !.storage_options.options.retry = r])

\* ContainerClientBuilder::transport
ContainerClientBuilder_transport ==
    /\ BuilderIs("ContainerClientBuilder")
    /\ \E t \in TransportValues :
         BuilderStep([the_builder EXCEPT !.storage_options.options.transport = t])

\* ContainerClientBuilder::timeout
ContainerClientBuilder_timeout ==
    /\ BuilderIs("ContainerClientBuilder")
    /\ \E t \in TimeoutValues :
         BuilderStep([the_builder EXCEPT !.storage_options.timeout_policy = TimeoutPolicy_new(t)])

\* BlobServiceClientBuilder::cloud_location
BlobServiceClientBuilder_cloud_location ==
    /\ BuilderIs("BlobServiceClientBuilder")
    /\ \E l \in CloudLocations : BuilderStep([the_builder EXCEPT !.cloud_location = l])

\* BlobServiceClientBuilder::retry
BlobServiceClientBuilder_retry ==
    /\ BuilderIs("BlobServiceClientBuilder")
    /\ \E r \in RetryValues :
         BuilderStep([the_builder EXCEPT !.storage_options.options.retry = r])

\* BlobServiceClientBuilder::transport
BlobServiceClientBuilder_transport ==
    /\ BuilderIs("BlobServiceClientBuilder")
    /\ \E t \in TransportValues :
         BuilderStep([the_builder EXCEPT !.storage_options.options.transport = t])

\* BlobServiceClientBuilder::timeout
BlobServiceClientBuilder_timeout ==
    /\ BuilderIs("BlobServiceClientBuilder")
    /\ \E t \in TimeoutValues :
         BuilderStep([the_builder EXCEPT !.storage_options.timeout_policy = TimeoutPolicy_new(t)])

\* build(self): the builder is consumed; the_builder stays as the record of what
\* the client was built from.
ContainerClientBuild ==
    /\ BuilderIs("ContainerClientBuilder")
    /\ built' = ContainerClientBuilder_build(the_builder)
    /\ UNCHANGED <<the_builder, sas_call, clock, finalize_call, url_call, the_pipeline, flight, sends, debug_call>>

BlobServiceClientBuild ==
    /\ BuilderIs("BlobServiceClientBuilder")
    /\ built' = BlobServiceClientBuilder_build(the_builder)
    /\ UNCHANGED <<the_builder, sas_call, clock, finalize_call, url_call, the_pipeline, flight, sends, debug_call>>

\* client.shared_access_signature(permissions, expiry) on a container client.
ContainerSas ==
    /\ built.tag = "ContainerClient"
    /\ \E p \in SasPermissions, e \in SasExpiries :
         sas_call' = [scope |-> "container",
                      credentials |-> built.storage_credentials,
                      permissions |-> p,
                      expiry |-> e,
                      result |-> ContainerClient_shared_access_signature(built, p, e)]
    /\ UNCHANGED <<the_builder, built, clock, finalize_call, url_call, the_pipeline, flight, sends, debug_call>>

\* credentials.shared_access_signature(...) on the credential of a built client.
AccountSas ==
    /\ built.tag \in {"ContainerClient", "BlobServiceClient"}
    /\ \E p \in SasPermissions, e \in SasExpiries :
         sas_call' = [scope |-> "account",
                      credentials |-> built.storage_credentials,
                      permissions |-> p,
                      expiry |-> e,
                      result |-> StorageCredentials_shared_access_signature(
                                   built.storage_credentials, "Blob", "Container", e, p)]
    /\ UNCHANGED <<the_builder, built, clock, finalize_call, url_call, the_pipeline, flight, sends, debug_call>>

Init ==
    /\ the_builder = None
    /\ built = None
    /\ sas_call = None
    /\ clock = 0
    /\ finalize_call = None
    /\ url_call = None
    /\ the_pipeline = None
    /\ flight = None
    /\ sends = [s \in Senders |-> Idle]
    /\ debug_call = None

Next ==
    \/ ContainerClientBuilderNew
    \/ ContainerClientBuilderWithLocation
    \/ BlobServiceClientBuilderNew
    \/ BlobServiceClientBuilderWithLocation
    \/ ContainerClientBuilder_cloud_location
    \/ ContainerClientBuilder_retry
    \/ ContainerClientBuilder_transport
    \/ ContainerClientBuilder_timeout
    \/ BlobServiceClientBuilder_cloud_location
    \/ BlobServiceClientBuilder_retry
    \/ BlobServiceClientBuilder_transport
    \/ BlobServiceClientBuilder_timeout
    \/ ContainerClientBuild
    \/ BlobServiceClientBuild
    \/ ContainerSas
    \/ AccountSas

Spec == Init /\ [][Next]_vars


(***************************************************************************)
(* Claims about clients and SAS generation, under Spec                     *)
(***************************************************************************)
IsClient(c) == c.tag \in {"ContainerClient", "BlobServiceClient"}

\* C4: a shared_access_signature call, in the account scope and in the container
\* scope, returns a signature exactly when the credential is a Key, the signature
\* then carries that credential's key, and every other variant gets a failure.
C4_SasOnlyFromKey ==
    sas_call # None =>
        /\ IsOk(sas_call.result) <=> sas_call.credentials.tag = "Key"
        /\ IsErr(sas_call.result) <=> sas_call.credentials.tag # "Key"
        /\ IsOk(sas_call.result) =>
             /\ sas_call.result.value.key = sas_call.credentials.key
             /\ sas_call.result.value.key # ""

\* A container client holding a non-key credential was asked for a signature and
\* refused.
C4_Witness ==
    /\ sas_call # None
    /\ sas_call.scope = "container"
    /\ sas_call.credentials.tag = "BearerToken"
    /\ IsErr(sas_call.result)

\* C5: a signing call that fails, in either scope, fails with the Credential kind.
C5_SigningFailureIsCredentialKind ==
    (sas_call # None /\ IsErr(sas_call.result)) =>
        sas_call.result.error.kind = "Credential"

\* C6: a client built from a builder whose final location is Emulator has the
\* well-known account name and the well-known account/key pair as its credential.
C6_EmulatorWellKnownPair ==
    (IsClient(built) /\ the_builder.cloud_location.tag = "Emulator") =>
        /\ built.storage_account = "devstoreaccount1"
        /\ built.storage_credentials.tag = "Key"
        /\ built.storage_credentials.account = "devstoreaccount1"
        /\ built.storage_credentials.key = EMULATOR_ACCOUNT_KEY

\* A container client built for the emulator after retry, transport and timeout
\* were set on the builder.
C6_Witness ==
    /\ built.tag = "ContainerClient"
    /\ the_builder.cloud_location.tag = "Emulator"
    /\ the_builder.storage_options.options.retry = "none"
    /\ the_builder.storage_options.options.transport = "custom"
    /\ the_builder.storage_options.timeout_policy.default_timeout # <<>>

\* C7: when the location's URL cannot be resolved, or the container name cannot be
\* appended to it, build reports a failure value to its caller and does not abort.
C7_BuildReportsAddressFailure ==
    LET base == CloudLocation_url(the_builder.cloud_location, "blob")
        failed == \/ IsErr(base)
                  \/ /\ the_builder.tag = "ContainerClientBuilder"
                     /\ IsErr(Url_join(base.value, the_builder.container))
    IN (built # None /\ failed) => IsErr(built)

\* C8: the URL of a built container client has the scheme, host and port of the
\* location's base URL, the base URL's path segments (a bare "/" holding none),
\* and the container name as exactly one more, last, segment.
C8_ContainerIsOneNewSegment ==
    built.tag = "ContainerClient" =>
        LET base == CloudLocation_url(the_builder.cloud_location, "blob").value
            kept == IF base.path = <<"">> THEN <<>> ELSE base.path
        IN /\ built.url.scheme = base.scheme
           /\ built.url.host = base.host
           /\ built.url.port = base.port
           /\ built.url.path =
                Append(kept, PercentEncode(the_builder.container, PathSegmentEncodeSet))

\* C12: a container client built for the emulator has the URL of
\* https://{address}:{port} (neither the account nor the service kind in the host)
\* with the well-known account name in its path, before the container name.
C12_EmulatorAccountInPath ==
    (built.tag = "ContainerClient" /\ the_builder.cloud_location.tag = "Emulator") =>
        LET base == CloudLocation_url(the_builder.cloud_location, "blob")
        IN /\ IsOk(base)
           /\ base.value.scheme = "https"
           /\ base.value.host = the_builder.cloud_location.address
           /\ base.value.port = <<the_builder.cloud_location.port>>
           /\ built.url.host = the_builder.cloud_location.address
           /\ built.url.port = <<the_builder.cloud_location.port>>
           /\ Len(built.url.path) >= 2
           /\ built.url.path[1] = EMULATOR_ACCOUNT

\* C14: a container client holding a Key credential signs the canonicalized
\* resource /blob/{account}/{container} of its own account and container name, as
\* a Container resource, with the key of its credential and with the permissions
\* and the expiry the caller passed.
C14_ContainerSasInputs ==
    (/\ sas_call # None
     /\ sas_call.scope = "container"
     /\ sas_call.credentials.tag = "Key") =>
        /\ IsOk(sas_call.result)
        /\ sas_call.result.value.canonicalized_resource =
             "/blob/" \o built.storage_account \o "/" \o built.container_name
        /\ StartsWith(sas_call.result.value.canonicalized_resource, "/blob/")
        /\ built.container_name = the_builder.container
        /\ sas_call.result.value.signed_resource = "Container"
        /\ sas_call.result.value.key = built.storage_credentials.key
        /\ sas_call.result.value.permissions = sas_call.permissions
        /\ sas_call.result.value.expiry = sas_call.expiry

\* A container client of the public cloud, holding a key, signed read-write access
\* to its container until the later of the two expiries.
C14_Witness ==
    /\ sas_call # None
    /\ sas_call.scope = "container"
    /\ built.storage_credentials = Key("acct", "a2V5")
    /\ IsOk(sas_call.result)
    /\ sas_call.result.value.canonicalized_resource = "/blob/acct/c"
    /\ sas_call.result.value.permissions = "rw"
    /\ sas_call.result.value.expiry = 2

\* The credentials the authorization stages of a pipeline captured, in order.
AuthorizationCredentials(pipeline) ==
    LET IsAuthorization(p) == p.policy = "AuthorizationPolicy"
        stages == SelectSeq(pipeline, IsAuthorization)
    IN [i \in 1..Len(stages) |-> stages[i].credentials]

\* C17: in every state after build, whatever was done with the client since, the
\* pipeline of the client has one authorization stage, and the credential it
\* captured is the credential the client holds, which is the one the builder's
\* final cloud location resolves to.
C17_PipelineCredentialIsClientCredential ==
    IsClient(built) =>
        /\ AuthorizationCredentials(built.pipeline) = <<built.storage_credentials>>
        /\ built.storage_credentials =
             CloudLocation_storage_credentials(the_builder.cloud_location)

\* A container client built for a China location holding a bearer token, after a
\* signature was asked of it.
C17_Witness ==
    /\ built.tag = "ContainerClient"
    /\ the_builder.cloud_location = China("acct", BearerToken("tok"))
    /\ sas_call # None
    /\ AuthorizationCredentials(built.pipeline) = <<BearerToken("tok")>>


(***************************************************************************)
(* finalize_request, called with every combination of inputs               *)
(***************************************************************************)
RequestUrls == {Url_parse("https://acct.blob.core.windows.net/c?comp=list").value}

Methods == {"GET", "PUT"}

\* The header names a caller passes: the three finalize_request stamps, and one
\* of the caller's own.
CallerHeaderNames == {CONTENT_LENGTH, MS_DATE, VERSION, "x-ms-meta-k"}

\* What the caller put under each name; none is a value finalize_request computes.
CallerHeaderValue(name) ==
    CASE name = CONTENT_LENGTH -> "999"
      [] name = MS_DATE -> "Mon, 01 Jan 1990 00:00:00 GMT"
      [] name = VERSION -> "2015-02-21"
      [] OTHER -> "v"

CallerHeaders == {[n \in S |-> CallerHeaderValue(n)] : S \in SUBSET CallerHeaderNames}

\* Option<Body>: none, or a body of 0..MaxBodyLen bytes.
RequestBodies == {<<>>} \cup {<<Bytes([i \in 1..n |-> 0])>> : n \in 0..MaxBodyLen}

\* Time passes.
Tick ==
    /\ clock < MaxClock
    /\ clock' = clock + 1
    /\ UNCHANGED <<the_builder, built, sas_call, finalize_call, url_call, the_pipeline, flight, sends, debug_call>>

FinalizeRequest ==
    /\ \E u \in RequestUrls, m \in Methods, h \in CallerHeaders, b \in RequestBodies :
         finalize_call' = [url |-> u, method |-> m, headers |-> h, request_body |-> b,
                           now |-> clock,
                           result |-> finalize_request(u, m, h, b, clock)]
    /\ UNCHANGED <<the_builder, built, sas_call, clock, url_call, the_pipeline, flight, sends, debug_call>>

NextFinalize == FinalizeRequest \/ Tick

SpecFinalize == Init /\ [][NextFinalize]_vars

\* C2: the request finalize_request returns has a body set and a Content-Length
\* header that is the decimal of that body's byte length; with no body supplied
\* the body is the empty-body marker and the header is "0".
C2_ContentLengthIsBodyLength ==
    finalize_call # None =>
        LET r == finalize_call.result
            h == r.value.headers
        IN /\ IsOk(r)
           /\ r.value.body.tag = "Bytes"
           /\ CONTENT_LENGTH \in DOMAIN h
           /\ Len(h[CONTENT_LENGTH]) > 0
           /\ AllDigits(h[CONTENT_LENGTH])
           /\ (Len(h[CONTENT_LENGTH]) > 1 => Char(h[CONTENT_LENGTH], 1) # "0")
           /\ ParseDecimal(h[CONTENT_LENGTH]) = Len(r.value.body.bytes)
           /\ IF finalize_call.request_body = <<>>
              THEN r.value.body = EMPTY_BODY /\ h[CONTENT_LENGTH] = "0"
              ELSE r.value.body = finalize_call.request_body[1]

\* A call with a body of ten bytes or more: its length takes two digits.
C2_Witness ==
    /\ finalize_call # None
    /\ finalize_call.request_body # <<>>
    /\ Len(finalize_call.request_body[1].bytes) >= 10
    /\ Len(finalize_call.result.value.headers[CONTENT_LENGTH]) = 2

\* C3: whatever headers the caller passes, the returned request carries the
\* Content-Length of this call's body, the date of this call and the version
\* "2019-12-12" under the three stamped names, not the caller's values for them;
\* the caller's other headers are merged in unchanged.
C3_StampsOverrideCallerHeaders ==
    finalize_call # None =>
        LET h == finalize_call.result.value.headers
            given == finalize_call.headers
            len == IF finalize_call.request_body = <<>> THEN 0
                   ELSE Len(finalize_call.request_body[1].bytes)
        IN /\ {CONTENT_LENGTH, MS_DATE, VERSION} \subseteq DOMAIN h
           /\ ParseDecimal(h[CONTENT_LENGTH]) = len
           /\ h[MS_DATE] = to_rfc1123(finalize_call.now)
           /\ h[VERSION] = "2019-12-12"
           /\ \A n \in (DOMAIN given) \cap {CONTENT_LENGTH, MS_DATE, VERSION} :
                h[n] # given[n]
           /\ \A n \in (DOMAIN given) \ {CONTENT_LENGTH, MS_DATE, VERSION} :
                n \in DOMAIN h /\ h[n] = given[n]

\* A call, after the clock moved, whose caller headers held all three stamped
\* names and one more.
C3_Witness ==
    /\ finalize_call # None
    /\ DOMAIN finalize_call.headers = CallerHeaderNames
    /\ finalize_call.now > 0
    /\ finalize_call.result.value.headers["x-ms-meta-k"] = "v"


(***************************************************************************)
(* CloudLocation::url and url_with_segments, called with every combination *)
(* of inputs                                                               *)
(***************************************************************************)
StorageTypes == {"blob", "queue"}

\* URLs given to url_with_segments: a bare root path, a path with a query, a path
\* ending in '/', and a URL that cannot be a base.
SegmentBaseUrls ==
    {Url_parse(u).value : u \in {"https://acct.blob.core.windows.net",
                                 "https://custom.example/base/dir?sv=1",
                                 "https://custom.example/base/",
                                 "mailto:ops"}}

SegmentValues == {"c", "a/b", "", ".", ".."}

RECURSIVE SeqsUpTo(_, _)
\* The sequences over S of length at most n.
SeqsUpTo(S, n) ==
    IF n = 0 THEN {<<>>}
    ELSE LET shorter == SeqsUpTo(S, n - 1)
         IN shorter \cup {Append(q, x) : q \in shorter, x \in S}

NewSegmentLists == SeqsUpTo(SegmentValues, MaxNewSegments)

CallCloudLocationUrl ==
    /\ \E l \in CloudLocations, t \in StorageTypes :
         url_call' = [fn |-> "CloudLocation::url", location |-> l, storage_type |-> t,
                      result |-> CloudLocation_url(l, t)]
    /\ UNCHANGED <<the_builder, built, sas_call, clock, finalize_call, the_pipeline, flight, sends, debug_call>>

CallUrlWithSegments ==
    /\ \E u \in SegmentBaseUrls, n \in NewSegmentLists :
         url_call' = [fn |-> "url_with_segments", url |-> u, new_segments |-> n,
                      result |-> url_with_segments(u, n)]
    /\ UNCHANGED <<the_builder, built, sas_call, clock, finalize_call, the_pipeline, flight, sends, debug_call>>

NextUrl == CallCloudLocationUrl \/ CallUrlWithSegments

SpecUrl == Init /\ [][NextUrl]_vars

IsUrlWithSegmentsCall == url_call # None /\ url_call.fn = "url_with_segments"

NotDotSegment(x) == x \notin {".", ".."}

NonEmptySegment(x) == x # ""

C10_AddressFailureKind ==
    (url_call # None /\ IsErr(url_call.result)) =>
        /\ url_call.result.error.kind # "DataConversion"
        /\ url_call.result.error.kind = "Address"

IsLocationUrlCall == url_call # None /\ url_call.fn = "CloudLocation::url"

\* The domain suffix of a location that has one.
DomainSuffix(location) ==
    IF location.tag = "Public" THEN "core.windows.net" ELSE "core.chinacloudapi.cn"

\* https://{host} as a Url: default port, the bare path "/", no query, no fragment.
HttpsHostUrl(host) ==
    [scheme |-> "https", host |-> host, port |-> <<>>, path |-> <<"">>, opaque |-> "",
     query |-> <<>>, fragment |-> <<>>, cannot_be_a_base |-> FALSE]

\* A string of the characters of a host-name label.
IsHostLabel(s) ==
    /\ Len(s) > 0
    /\ \A i \in 1..Len(s) : Char(s, i) \in Letters \cup Digits \cup {"-"}

\* The same call with any other credential in the location gives the same result.
CredentialHasNoEffect ==
    \A c \in CredentialValues :
        CloudLocation_url([url_call.location EXCEPT !.storage_credentials = c],
                          url_call.storage_type) = url_call.result

\* C11 as claimed: for every Public or China location with account a and every
\* service kind s, CloudLocation::url returns the URL https://a.s.{suffix} (host
\* a.s.{suffix}, nothing else), whatever credential the location holds.
C11_PublicChinaUrlShape ==
    (IsLocationUrlCall /\ url_call.location.tag \in {"Public", "China"}) =>
        /\ IsOk(url_call.result)
        /\ url_call.result.value =
             HttpsHostUrl(url_call.location.account \o "." \o url_call.storage_type
                          \o "." \o DomainSuffix(url_call.location))
        /\ CredentialHasNoEffect

\* C11, amended: the same, promised when the account and the service kind are
\* host-name labels (letters, digits, hyphens); the credential has no effect on
\* the result in any case.
C11_PublicChinaUrlShapeOfHostLabels ==
    (IsLocationUrlCall /\ url_call.location.tag \in {"Public", "China"}) =>
        /\ (IsHostLabel(url_call.location.account) /\ IsHostLabel(url_call.storage_type)) =>
             /\ IsOk(url_call.result)
             /\ url_call.result.value =
                  HttpsHostUrl(url_call.location.account \o "." \o url_call.storage_type
                               \o "." \o DomainSuffix(url_call.location))
             /\ Url_as_str(url_call.result.value) =
                  "https://" \o url_call.location.account \o "." \o url_call.storage_type
                  \o "." \o DomainSuffix(url_call.location) \o "/"
        /\ CredentialHasNoEffect

\* The queue endpoint of a China location holding a SAS token was resolved.
C11_Witness ==
    /\ IsLocationUrlCall
    /\ url_call.location = China("acct", SASToken(<< <<"sv", "2019-12-12">>, <<"sig", "abc">> >>))
    /\ url_call.storage_type = "queue"
    /\ IsOk(url_call.result)
    /\ url_call.result.value.host = "acct.queue.core.chinacloudapi.cn"

\* C13: for a Custom location, CloudLocation::url never fails and returns the
\* configured URI unchanged, for every service kind and every credential.
C13_CustomUrlIsIdentity ==
    (IsLocationUrlCall /\ url_call.location.tag = "Custom") =>
        /\ IsOk(url_call.result)
        /\ url_call.result.value = url_call.location.uri
        /\ Url_as_str(url_call.result.value) = Url_as_str(url_call.location.uri)
        /\ \A t \in StorageTypes : \A c \in CredentialValues :
             CloudLocation_url(Custom(url_call.location.uri, c), t) = url_call.result

\* The queue endpoint of a Custom location was resolved, its URI one with a path.
C13_Witness ==
    /\ IsLocationUrlCall
    /\ url_call.location.tag = "Custom"
    /\ url_call.storage_type = "queue"
    /\ url_call.location.uri.path = <<"base", "dir">>
    /\ url_call.result = Ok(url_call.location.uri)


(***************************************************************************)
(* Pipeline::send: the request passes the stages in order                  *)
(***************************************************************************)
\* url.query_pairs_mut().append_pair(k, v), on names and values that need no encoding
append_pair(url, k, v) ==
    [url EXCEPT !.query = IF @ = <<>> \/ @ = <<"">> THEN <<k \o "=" \o v>>
                          ELSE <<@[1] \o "&" \o k \o "=" \o v>>]

RECURSIVE append_pairs(_, _)
append_pairs(url, pairs) ==
    IF Len(pairs) = 0 THEN url
    ELSE append_pairs(append_pair(url, pairs[1][1], pairs[1][2]), Tail(pairs))

\* TimeoutPolicy::send: the timeout of the call context, else the policy's
\* default, goes into the URL's query.
TimeoutPolicy_apply(policy, context, request) ==
    LET timeout == IF context.timeout # <<>> THEN context.timeout
                   ELSE policy.default_timeout
    IN IF timeout = <<>> THEN request
       ELSE [request EXCEPT !.url = append_pair(@, "timeout", UsizeToString(timeout[1]))]

\* AuthorizationPolicy::send: the proof of the captured credential is attached.
\* A shared-key signature is a function of the key and of the method, URL and
\* headers of the request as it is at this stage. token is what get_token gave,
\* for a TokenCredential.
AuthorizationPolicy_apply(policy, request, token) ==
    LET c == policy.credentials
    IN CASE c.tag = "Key" ->
              insert_header(request, "authorization",
                [scheme |-> "SharedKey", account |-> c.account,
                 signature |-> [key |-> c.key,
                                signed |-> [method |-> request.method,
                                            url |-> request.url,
                                            headers |-> request.headers]]])
         [] c.tag = "SASToken" -> [request EXCEPT !.url = append_pairs(@, c.pairs)]
         [] c.tag = "BearerToken" ->
              insert_header(request, "authorization", [scheme |-> "Bearer", token |-> c.token])
         [] c.tag = "TokenCredential" ->
              insert_header(request, "authorization", [scheme |-> "Bearer", token |-> token])

\* A policy from ClientOptions, which gets the request mutably.
CallerPolicy_apply(policy, request) ==
    IF policy.name = "set-header" THEN insert_header(request, "x-ms-client-request-id", "id")
    ELSE request

\* TelemetryPolicy::send
TelemetryPolicy_apply(request) == insert_header(request, "user-agent", "azsdk-rust")

CallerPolicies == {CallerPolicy("set-header"), CallerPolicy("log")}

PolicyLists == {<<>>} \cup {<<p>> : p \in CallerPolicies}

StorageOptionsValues ==
    {[options |-> [retry |-> r, transport |-> "default",
                   per_call_policies |-> pc, per_retry_policies |-> pr],
      timeout_policy |-> TimeoutPolicy_new(t)] :
        r \in RetryValues, t \in TimeoutValues, pc \in PolicyLists, pr \in PolicyLists}

\* Context, with the caller's own timeout or none.
Contexts == {[timeout |-> <<>>], [timeout |-> <<5>>]}

SendBodies == {<<>>, <<Bytes(<<0, 0, 0>>)>>}

InFlight == flight.tag = "InFlight"

Stage == the_pipeline.policies[flight.at]

\* The request moves on to the next stage.
Forward(request) ==
    flight' = [flight EXCEPT !.at = @ + 1, !.request = request]

NewPipelineFromOptions ==
    /\ ~InFlight
    /\ \E o \in StorageOptionsValues, c \in CredentialValues :
         the_pipeline' = [tag |-> "Pipeline", policies |-> new_pipeline_from_options(o, c)]
    /\ flight' = None
    /\ UNCHANGED <<the_builder, built, sas_call, clock, finalize_call, url_call, sends, debug_call>>

\* pipeline.send(&mut context, &mut request), the request made by finalize_request
PipelineSend ==
    /\ the_pipeline # None
    /\ ~InFlight
    /\ \E u \in RequestUrls, m \in Methods, b \in SendBodies, ctx \in Contexts :
         flight' = [tag |-> "InFlight", at |-> 1, context |-> ctx,
                    request |-> finalize_request(u, m, <<>>, b, clock).value,
                    authorized |-> None]
    /\ UNCHANGED <<the_builder, built, sas_call, clock, finalize_call, url_call, the_pipeline, sends, debug_call>>

CallerPolicySend ==
    /\ InFlight /\ Stage.policy = "CallerPolicy"
    /\ Forward(CallerPolicy_apply(Stage, flight.request))
    /\ UNCHANGED <<the_builder, built, sas_call, clock, finalize_call, url_call, the_pipeline, sends, debug_call>>

TelemetryPolicySend ==
    /\ InFlight /\ Stage.policy = "TelemetryPolicy"
    /\ Forward(TelemetryPolicy_apply(flight.request))
    /\ UNCHANGED <<the_builder, built, sas_call, clock, finalize_call, url_call, the_pipeline, sends, debug_call>>

\* CustomHeadersPolicy::send: the context of this model carries no custom headers.
CustomHeadersPolicySend ==
    /\ InFlight /\ Stage.policy = "CustomHeadersPolicy"
    /\ Forward(flight.request)
    /\ UNCHANGED <<the_builder, built, sas_call, clock, finalize_call, url_call, the_pipeline, sends, debug_call>>

\* RetryPolicy::send: the first attempt.
RetryPolicySend ==
    /\ InFlight /\ Stage.policy = "RetryPolicy"
    /\ Forward(flight.request)
    /\ UNCHANGED <<the_builder, built, sas_call, clock, finalize_call, url_call, the_pipeline, sends, debug_call>>

TimeoutPolicySend ==
    /\ InFlight /\ Stage.policy = "TimeoutPolicy"
    /\ Forward(TimeoutPolicy_apply(Stage, flight.context, flight.request))
    /\ UNCHANGED <<the_builder, built, sas_call, clock, finalize_call, url_call, the_pipeline, sends, debug_call>>

\* AuthorizationPolicy::send. A TokenCredential's get_token may fail, and the
\* request is then abandoned; authorized records the request as this stage left it.
AuthorizationPolicySend ==
    /\ InFlight /\ Stage.policy = "AuthorizationPolicy"
    /\ \/ \E token \in {"fresh"} :
            LET r == AuthorizationPolicy_apply(Stage, flight.request, token)
            IN flight' = [flight EXCEPT !.at = @ + 1, !.request = r,
                                        !.authorized = [url |-> r.url, headers |-> r.headers]]
       \/ /\ Stage.credentials.tag = "TokenCredential"
          /\ flight' = [tag |-> "Failed",
                        error |-> [kind |-> "Credential", message |-> "get_token failed"]]
    /\ UNCHANGED <<the_builder, built, sas_call, clock, finalize_call, url_call, the_pipeline, sends, debug_call>>

\* TransportPolicy::send: the request goes out as it is now.
TransportPolicySend ==
    /\ InFlight /\ Stage.policy = "TransportPolicy"
    /\ flight' = [tag |-> "Transmitted", request |-> flight.request,
                  authorized |-> flight.authorized, context |-> flight.context]
    /\ UNCHANGED <<the_builder, built, sas_call, clock, finalize_call, url_call, the_pipeline, sends, debug_call>>

NextPipeline ==
    \/ NewPipelineFromOptions
    \/ PipelineSend
    \/ CallerPolicySend
    \/ TelemetryPolicySend
    \/ CustomHeadersPolicySend
    \/ RetryPolicySend
    \/ TimeoutPolicySend
    \/ AuthorizationPolicySend
    \/ TransportPolicySend

SpecPipeline == Init /\ [][NextPipeline]_vars

\* C1: in every pipeline new_pipeline_from_options builds, the timeout stage comes
\* before the authorization stage and the authorization stage comes directly
\* before the transport, with no caller-supplied stage in between; and every
\* request is transmitted with the URL and headers the authorization stage left.
C1_AuthorizationLastBeforeTransmission ==
    /\ the_pipeline # None =>
         LET p == the_pipeline.policies
             t == StageIndex(p, "TimeoutPolicy")
             a == StageIndex(p, "AuthorizationPolicy")
             x == StageIndex(p, "TransportPolicy")
         IN /\ 0 < t /\ t < a /\ a < x
            /\ x = Len(p)
            /\ \A i \in (a + 1)..(x - 1) : p[i].policy # "CallerPolicy"
    /\ flight.tag = "Transmitted" =>
         /\ flight.authorized # None
         /\ flight.request.url = flight.authorized.url
         /\ flight.request.headers = flight.authorized.headers


(***************************************************************************)
(* Concurrent sends through one client, its clones and its lease clients   *)
(*                                                                         *)
(* Each task owns its context and its request (&mut) and borrows the       *)
(* client (&self); the stages of the tasks' pipeline runs interleave at    *)
(* every await.                                                            *)
(***************************************************************************)
\* #[derive(Clone)] on ContainerClient and BlobServiceClient: every field is
\* cloned, and the clone of a Pipeline holds the same policies (Arc).
ContainerClient_clone(self) == self

\* ContainerLeaseClient::new
ContainerLeaseClient_new(container_client, lease_id) ==
    [tag |-> "ContainerLeaseClient", container_client |-> container_client,
     lease_id |-> lease_id]

\* ContainerClient::container_lease_client
ContainerClient_container_lease_client(self, lease_id) ==
    ContainerLeaseClient_new(ContainerClient_clone(self), lease_id)

\* Policy::send of one stage, up to its call of the next stage: what it does to
\* the request it was handed.
Policy_send(policy, context, request, token) ==
    CASE policy.policy = "CallerPolicy" -> CallerPolicy_apply(policy, request)
      [] policy.policy = "TelemetryPolicy" -> TelemetryPolicy_apply(request)
      [] policy.policy = "CustomHeadersPolicy" -> request
      [] policy.policy = "RetryPolicy" -> request
      [] policy.policy = "TimeoutPolicy" -> TimeoutPolicy_apply(policy, context, request)
      [] policy.policy = "AuthorizationPolicy" -> AuthorizationPolicy_apply(policy, request, token)
      [] policy.policy = "TransportPolicy" -> request

\* Pipeline::send, one stage of it: the stage the run is at gets the run's own
\* context and request; the transport stage transmits.
Pipeline_send(pipeline, run, token) ==
    LET stage == pipeline[run.at]
        request == Policy_send(stage, run.context, run.request, token)
    IN IF stage.policy = "TransportPolicy"
       THEN [run EXCEPT !.tag = "Transmitted", !.request = request]
       ELSE [run EXCEPT !.at = @ + 1, !.request = request]

ContainerClient_send_KeepsRequestUrl(self, run, token) ==
    LET after == Pipeline_send(self.pipeline, run, token)
    IN [client |-> [self EXCEPT !.url = after.request.url], run |-> after]

\* ContainerClient::send(&self, &mut context, &mut request): the client is read,
\* the run's context and request go to the pipeline.
ContainerClient_send(self, run, token) ==
    [client |-> self, run |-> Pipeline_send(self.pipeline, run, token)]

\* BlobServiceClient::send
BlobServiceClient_send(self, run, token) ==
    [client |-> self, run |-> Pipeline_send(self.pipeline, run, token)]

\* ContainerLeaseClient::send: through the container client it holds.
ContainerLeaseClient_send(self, run, token) ==
    LET r == ContainerClient_send(self.container_client, run, token)
    IN [client |-> [self EXCEPT !.container_client = r.client], run |-> r.run]

\* The send of the client type of handle.
Client_send(handle, run, token) ==
    CASE handle.tag = "ContainerClient" -> ContainerClient_send(handle, run, token)
      [] handle.tag = "BlobServiceClient" -> BlobServiceClient_send(handle, run, token)
      [] handle.tag = "ContainerLeaseClient" -> ContainerLeaseClient_send(handle, run, token)

\* The pipeline a handle sends through.
HandlePipeline(handle) ==
    IF handle.tag = "ContainerLeaseClient" THEN handle.container_client.pipeline
    ELSE handle.pipeline

\* What a task sends through: the client itself, a clone of it, or a lease client
\* made from it (container clients only).
Throughs(client) ==
    IF client.tag = "ContainerClient" THEN {"client", "clone", "lease client"}
    ELSE {"client", "clone"}

\* The task's own handle: None when it borrows the client itself.
OwnHandle(client, through) ==
    CASE through = "client" -> None
      [] through = "clone" -> ContainerClient_clone(client)
      [] through = "lease client" -> ContainerClient_container_lease_client(client, "lease-1")

\* What get_token of a TokenCredential gives.
Tokens == {"fresh"}

\* The builders the concurrent sends' client is built from.
SendBuilders ==
    { [ContainerClientBuilder_new("acct", "c", Key("acct", "a2V5"))
         EXCEPT !.storage_options.timeout_policy = TimeoutPolicy_new(<<30>>)],
      ContainerClientBuilder_new("acct", "c", TokenCredential("aad")),
      BlobServiceClientBuilder_new("acct",
        SASToken(<< <<"sv", "2019-12-12">>, <<"sig", "abc">> >>)) }
    \cup {ContainerClientBuilder_with_location(Custom(u, Key("acct", "a2V5")), "c") :
            u \in CustomUris}
    \cup {BlobServiceClientBuilder_with_location(Custom(u, BearerToken("tok"))) :
            u \in CustomUris}

\* The handle a run sends through.
RunHandle(run) == IF run.through = "client" THEN built ELSE run.handle

\* An operation's into_future: the task makes its own request and context and
\* starts client.send(&mut context, &mut request).
StartSend ==
    /\ IsClient(built)
    /\ \E s \in Senders, through \in Throughs(built), ctx \in Contexts :
         /\ sends[s] = Idle
         /\ LET request == finalize_request(built.url, "GET", <<>>, <<>>, clock).value
            IN sends' = [sends EXCEPT ![s] =
                           [tag |-> "InFlight", through |-> through,
                            handle |-> OwnHandle(built, through),
                            at |-> 1, context |-> ctx, request |-> request,
                            first |-> request]]
    /\ UNCHANGED <<the_builder, built, sas_call, clock, finalize_call, url_call,
                   the_pipeline, flight, debug_call>>

\* The next stage of one task's send runs, up to its next await.
SendStage ==
    \E s \in Senders, token \in Tokens :
       /\ sends[s].tag = "InFlight"
       /\ LET r == Client_send(RunHandle(sends[s]), sends[s], token)
          IN IF sends[s].through = "client"
             THEN /\ built' = r.client
                  /\ sends' = [sends EXCEPT ![s] = r.run]
             ELSE /\ built' = built
                  /\ sends' = [sends EXCEPT ![s] = [r.run EXCEPT !.handle = r.client]]
       /\ UNCHANGED <<the_builder, sas_call, clock, finalize_call, url_call,
                      the_pipeline, flight, debug_call>>

\* get_token of a TokenCredential fails at the authorization stage: the send is
\* abandoned with the error.
SendFails ==
    /\ \E s \in Senders :
         /\ sends[s].tag = "InFlight"
         /\ LET stage == HandlePipeline(RunHandle(sends[s]))[sends[s].at]
            IN /\ stage.policy = "AuthorizationPolicy"
               /\ stage.credentials.tag = "TokenCredential"
         /\ sends' = [sends EXCEPT ![s] = [@ EXCEPT !.tag = "Failed"]]
    /\ UNCHANGED <<the_builder, built, sas_call, clock, finalize_call, url_call,
                   the_pipeline, flight, debug_call>>

\* send returns its response or its error to the task, which drops its request,
\* its context and its handle.
SendReturns ==
    /\ \E s \in Senders :
         /\ sends[s].tag \in {"Transmitted", "Failed"}
         /\ sends' = [sends EXCEPT ![s] = Idle]
    /\ UNCHANGED <<the_builder, built, sas_call, clock, finalize_call, url_call,
                   the_pipeline, flight, debug_call>>

InitSend ==
    /\ the_builder \in SendBuilders
    /\ built = None
    /\ sas_call = None
    /\ clock = 0
    /\ finalize_call = None
    /\ url_call = None
    /\ the_pipeline = None
    /\ flight = None
    /\ sends = [s \in Senders |-> Idle]
    /\ debug_call = None

NextSend ==
    \/ ContainerClientBuild
    \/ BlobServiceClientBuild
    \/ StartSend
    \/ SendStage
    \/ SendFails
    \/ SendReturns

SpecSend == InitSend /\ [][NextSend]_vars

RECURSIVE RunAlone(_, _, _, _, _)
\* The request a send transmits when it is the only one: the stages of pipeline
\* from stage at on, applied to request in order.
RunAlone(pipeline, context, request, at, token) ==
    IF at > Len(pipeline) THEN request
    ELSE RunAlone(pipeline, context, Policy_send(pipeline[at], context, request, token),
                  at + 1, token)

\* C15: under every interleaving of the sends of the tasks, no step changes the
\* built client (pipeline, credential, account, URL) or the handle (clone, lease
\* client) a send goes through; a step of one send leaves every other send's
\* request and context as they were; and what a send transmits is what it would
\* transmit alone: the stages of the shared pipeline applied to its own request
\* and context.
C15_ConcurrentSendsShareReadOnly ==
    [][ /\ IsClient(built) => built' = built
        /\ \A s \in Senders :
             (sends[s].tag = "InFlight" /\ sends'[s].tag # "Idle") =>
                 /\ sends'[s].handle = sends[s].handle
                 /\ sends'[s].context = sends[s].context
                 /\ sends'[s].first = sends[s].first
        /\ \A s \in Senders : \A o \in Senders \ {s} :
             sends'[s] # sends[s] => sends'[o] = sends[o]
        /\ \A s \in Senders :
             sends'[s].tag = "Transmitted" =>
                 \E token \in Tokens :
                     sends'[s].request =
                         RunAlone(built.pipeline, sends'[s].context, sends'[s].first, 1, token)
      ]_vars

\* One task's send was transmitted through the client itself while another task's
\* send, through a lease client, is past the timeout stage and not yet authorized.
C15_Witness ==
    /\ built.tag = "ContainerClient"
    /\ \E s \in Senders : \E o \in Senders \ {s} :
         /\ sends[s].tag = "Transmitted"
         /\ sends[s].through = "client"
         /\ sends[s].request.url.query = <<"timeout=30">>
         /\ sends[o].tag = "InFlight"
         /\ sends[o].through = "lease client"
         /\ HandlePipeline(sends[o].handle)[sends[o].at].policy = "AuthorizationPolicy"

\* C16: for a Custom location CloudLocation::storage_account returns no name (it
\* stops at todo!()), so build of either builder with a Custom location ends in a
\* panic and gives no client, and no send is ever started for such a builder.
C16_CustomLocationBuildsNoClient ==
    (the_builder # None /\ the_builder.cloud_location.tag = "Custom") =>
        /\ ~IsOk(CloudLocation_storage_account(the_builder.cloud_location))
        /\ ~IsClient(built)
        /\ built # None => built.tag = "Panic"
        /\ \A s \in Senders : sends[s] = Idle

\* build of a service client builder with a Custom https location got as far as
\* storage_account() and stopped at its todo!().
C16_Witness ==
    /\ the_builder.tag = "BlobServiceClientBuilder"
    /\ the_builder.cloud_location.tag = "Custom"
    /\ the_builder.cloud_location.uri.scheme = "https"
    /\ built = Panic("not yet implemented")


(***************************************************************************)
(* Debug output of credentials: pairs of credentials formatted side by     *)
(* side                                                                    *)
(***************************************************************************)
\* Credentials of every variant that differ in account, key, query pairs, token
\* and token source.
DebugCredentialValues ==
    {Key(a, k) : a \in {"acct", "other"}, k \in {"a2V5", "c2VjcmV0"}}
    \cup {SASToken(p) : p \in {<<>>,
                               << <<"sig", "abc">> >>,
                               << <<"sv", "2019-12-12">>, <<"sig", "xyz">> >>}}
    \cup {BearerToken(b) : b \in {"tok", "eyJhbGci"}}
    \cup {TokenCredential(i) : i \in {"aad", "msi"}}

\* The strings of a credential that must stay secret.
Secrets(c) ==
    CASE c.tag = "Key" -> {c.account, c.key}
      [] c.tag = "SASToken" -> {c.pairs[i][2] : i \in 1..Len(c.pairs)}
      [] c.tag = "BearerToken" -> {c.token}
      [] c.tag = "TokenCredential" -> {c.id}

\* Whether sub occurs in s.
Contains(s, sub) ==
    \E i \in 1..(Len(s) - Len(sub) + 1) : SubSeq(s, i, i + Len(sub) - 1) = sub

\* format!("{:?}", a), format!("{:?}", b), or both with {:#?}.
FormatDebug ==
    /\ \E a \in DebugCredentialValues, b \in DebugCredentialValues, alternate \in BOOLEAN :
         debug_call' = [a |-> a, b |-> b, alternate |-> alternate,
                        out_a |-> StorageCredentials_fmt(a, alternate),
                        out_b |-> StorageCredentials_fmt(b, alternate)]
    /\ UNCHANGED <<the_builder, built, sas_call, clock, finalize_call, url_call,
                   the_pipeline, flight, sends>>

NextDebug == FormatDebug

SpecDebug == Init /\ [][NextDebug]_vars

\* C18: two credentials of the same variant have the same Debug output, whatever
\* their account, key, query pairs or token, and the output of a credential holds
\* none of its secret strings.
C18_DebugDependsOnVariantOnly ==
    debug_call # None =>
        /\ debug_call.a.tag = debug_call.b.tag => debug_call.out_a = debug_call.out_b
        /\ \A s \in Secrets(debug_call.a) : ~Contains(debug_call.out_a, s)
        /\ \A s \in Secrets(debug_call.b) : ~Contains(debug_call.out_b, s)

\* Two Key credentials with different accounts and keys were formatted, and both
\* gave the variant's name only.
C18_Witness ==
    /\ debug_call # None
    /\ debug_call.a = Key("acct", "a2V5")
    /\ debug_call.b = Key("other", "c2VjcmV0")
    /\ ~debug_call.alternate
    /\ debug_call.out_a = "StorageCredentials { credential: \"Key\" }"
    /\ debug_call.out_b = debug_call.out_a

=============================================================================
